---- MODULE Spec2Model ----
(***************************************************************************)
(* Model of src/app.py, the TPSR service request dashboard: the passcode   *)
(* gate, load_data (the spreadsheet normaliser), the sidebar filters and   *)
(* the monthly cost trend.                                                 *)
(*                                                                         *)
(* A spreadsheet cell value (openpyxl cell.value) is a record              *)
(*   [t |-> type tag, n |-> number, s |-> text]                            *)
(* with t one of "none" (None), "num" (int/float), "bool", "str" and       *)
(* "date" (datetime.datetime).  Text is a sequence of one-character        *)
(* strings so that strip() and capitalize() can be computed.  A date       *)
(* carries n = year*10000 + month*100 + day.  Numbers are integers: the    *)
(* float() conversions of the source keep the numeric value.               *)
(***************************************************************************)
EXTENDS Integers, Sequences, FiniteSets, TLC

VARIABLES
    sheet,              \* data rows of the workbook (row 2 onwards), read-only input
    authenticated,      \* st.session_state.authenticated
    entered,            \* value of the passcode text_input widget
    event,              \* the last user interaction (a widget change or press)
    screen,             \* what the last script run rendered
    status_unchecked,   \* statuses whose sidebar checkbox the user has unchecked
    req_unchecked,      \* requesters whose sidebar checkbox the user has unchecked
    records,            \* the list built by load_data's row loop in the last run
    df,                 \* the DataFrame returned by load_data in the last run
    status_filter,      \* status_filter of the last run
    requester_filter,   \* requester_filter of the last run
    df_filtered,        \* df_filtered of the last run
    cost_time           \* cost_time of the last run

vars == <<sheet, authenticated, entered, event, screen, status_unchecked, req_unchecked,
          records, df, status_filter, requester_filter, df_filtered, cost_time>>

---------------------------------------------------------------------------
(* Cell values *)

NoneCell == [t |-> "none", n |-> 0, s |-> <<>>]
Num(k) == [t |-> "num", n |-> k, s |-> <<>>]
Bool(b) == [t |-> "bool", n |-> IF b THEN 1 ELSE 0, s |-> <<>>]
Str(txt) == [t |-> "str", n |-> 0, s |-> txt]
Date(y, m, d) == [t |-> "date", n |-> y * 10000 + m * 100 + d, s |-> <<>>]

YearOf(c) == c.n \div 10000
MonthOf(c) == (c.n \div 100) % 100
DayOf(c) == c.n % 100

\* isinstance(x, (int, float)): bool is a subclass of int
IsNumeric(c) == c.t \in {"num", "bool"}

\* Python truth value of a cell value
Truthy(c) ==
    CASE c.t = "none" -> FALSE
      [] c.t = "num" -> c.n # 0
      [] c.t = "bool" -> c.n # 0
      [] c.t = "str" -> c.s # <<>>
      [] OTHER -> TRUE

---------------------------------------------------------------------------
(* Python str methods on text *)

LowerChars == <<"a","b","c","d","e","f","g","h","i","j","k","l","m",
                "n","o","p","q","r","s","t","u","v","w","x","y","z">>
UpperChars == <<"A","B","C","D","E","F","G","H","I","J","K","L","M",
                "N","O","P","Q","R","S","T","U","V","W","X","Y","Z">>
Whitespace == {" ", "\t", "\n"}

Upper(ch) ==
    IF \E i \in 1..Len(LowerChars) : LowerChars[i] = ch
    THEN UpperChars[CHOOSE i \in 1..Len(LowerChars) : LowerChars[i] = ch]
    ELSE ch

Lower(ch) ==
    IF \E i \in 1..Len(UpperChars) : UpperChars[i] = ch
    THEN LowerChars[CHOOSE i \in 1..Len(UpperChars) : UpperChars[i] = ch]
    ELSE ch

RECURSIVE LStrip(_)
LStrip(txt) ==
    IF txt # <<>> /\ Head(txt) \in Whitespace THEN LStrip(Tail(txt)) ELSE txt

RECURSIVE RStrip(_)
RStrip(txt) ==
    IF txt # <<>> /\ txt[Len(txt)] \in Whitespace
    THEN RStrip(SubSeq(txt, 1, Len(txt) - 1))
    ELSE txt

\* str.strip()
Strip(txt) == RStrip(LStrip(txt))

\* str.capitalize(): first character upper-cased, the rest lower-cased
Capitalize(txt) ==
    [i \in 1..Len(txt) |-> IF i = 1 THEN Upper(txt[i]) ELSE Lower(txt[i])]

DigitChars == <<"0","1","2","3","4","5","6","7","8","9">>

RECURSIVE NatStr(_)
NatStr(k) ==
    IF k < 10 THEN <<DigitChars[k + 1]>>
    ELSE NatStr(k \div 10) \o <<DigitChars[(k % 10) + 1]>>

Pad2(k) == IF k < 10 THEN <<"0">> \o NatStr(k) ELSE NatStr(k)

RECURSIVE PadYear(_)
PadYear(txt) == IF Len(txt) < 4 THEN PadYear(<<"0">> \o txt) ELSE txt

\* str(value) of a cell value
PyStr(c) ==
    CASE c.t = "str" -> c.s
      [] c.t = "none" -> <<"N","o","n","e">>
      [] c.t = "bool" -> IF c.n = 1 THEN <<"T","r","u","e">> ELSE <<"F","a","l","s","e">>
      [] c.t = "num" -> IF c.n < 0 THEN <<"-">> \o NatStr(-c.n) ELSE NatStr(c.n)
      [] OTHER -> PadYear(NatStr(YearOf(c))) \o <<"-">> \o Pad2(MonthOf(c)) \o <<"-">>
                  \o Pad2(DayOf(c)) \o <<" ","0","0",":","0","0",":","0","0">>

IsDigit(ch) == \E i \in 1..Len(DigitChars) : DigitChars[i] = ch

DigitVal(ch) == (CHOOSE i \in 1..Len(DigitChars) : DigitChars[i] = ch) - 1

RECURSIVE DigitsVal(_)
DigitsVal(txt) ==
    IF txt = <<>> THEN 0
    ELSE DigitsVal(SubSeq(txt, 1, Len(txt) - 1)) * 10 + DigitVal(txt[Len(txt)])

\* the digits of a text that reads as a whole number ("12", " 7", "-5"), sign removed
Unsigned(txt) ==
    LET t == Strip(txt)
    IN  IF t # <<>> /\ t[1] \in {"-", "+"} THEN Tail(t) ELSE t

\* whether a text denotes a (whole) number, and the number it denotes
DenotesNumber(txt) ==
    Unsigned(txt) # <<>> /\ \A i \in 1..Len(Unsigned(txt)) : IsDigit(Unsigned(txt)[i])

NumberDenoted(txt) ==
    IF Strip(txt)[1] = "-" THEN -DigitsVal(Unsigned(txt)) ELSE DigitsVal(Unsigned(txt))

---------------------------------------------------------------------------
(* datetime arithmetic: (val - datetime(1899, 12, 30)).days *)

IsLeap(y) == (y % 4 = 0) /\ ((y % 100 # 0) \/ (y % 400 = 0))

DaysInMonth(y, m) ==
    CASE m \in {1, 3, 5, 7, 8, 10, 12} -> 31
      [] m \in {4, 6, 9, 11} -> 30
      [] OTHER -> IF IsLeap(y) THEN 29 ELSE 28

RECURSIVE DaysBeforeMonth(_, _)
DaysBeforeMonth(y, m) ==
    IF m = 1 THEN 0 ELSE DaysBeforeMonth(y, m - 1) + DaysInMonth(y, m - 1)

DaysBeforeYear(y) ==
    (y - 1) * 365 + ((y - 1) \div 4) - ((y - 1) \div 100) + ((y - 1) \div 400)

\* datetime.toordinal(): proleptic Gregorian ordinal, 0001-01-01 is day 1
ToOrdinal(y, m, d) == DaysBeforeYear(y) + DaysBeforeMonth(y, m) + d

EpochOrdinal == ToOrdinal(1899, 12, 30)

---------------------------------------------------------------------------
(* load_data: the row loop *)

PASSCODE == <<"T","P","S","R","2","0","2","5">>

service_col_nums == 5..12
CANCER_COL == 14
Columns == 1..CANCER_COL

Unknown == <<"U","n","k","n","o","w","n">>
Yes == <<"Y","e","s">>
No == <<"N","o">>

\* pd.NaT
NaT == [t |-> "nat", n |-> 0, s |-> <<>>]

\* excel_date_to_int with the day count taken from 1899-12-31
excel_date_to_int_1900(val) ==
    IF val.t = "date"
    THEN Num(ToOrdinal(YearOf(val), MonthOf(val), DayOf(val)) - ToOrdinal(1899, 12, 31))
    ELSE val

\* excel_date_to_int(val)
excel_date_to_int(val) ==
    IF val.t = "date"
    THEN Num(ToOrdinal(YearOf(val), MonthOf(val), DayOf(val)) - EpochOrdinal)
    ELSE val

\* the row test with any() in place of all()
IsEmptyRowAny(row) == \E c \in Columns : row[c].t = "none"

\* all(cell.value is None for cell in row)
IsEmptyRow(row) == \A c \in Columns : row[c].t = "none"

\* the cost cell put through excel_date_to_int like a service-unit cell
CostOfDates(row) ==
    LET got == IF row[4].t = "none" THEN Num(0) ELSE row[4]
        cost == excel_date_to_int(IF Truthy(got) THEN got ELSE Num(0))
    IN  IF IsNumeric(cost) THEN cost.n ELSE 0

\* the cost cell with text parsed as a number when it denotes one
CostOfParsing(row) ==
    LET got == IF row[4].t = "none" THEN Num(0) ELSE row[4]
        cost == IF Truthy(got) THEN got ELSE Num(0)
    IN  IF IsNumeric(cost) THEN cost.n
        ELSE IF cost.t = "str" /\ DenotesNumber(cost.s) THEN NumberDenoted(cost.s)
        ELSE 0

\* cost = vals.get(4, 0) or 0;  float(cost) if isinstance(cost, (int, float)) else 0.0
CostOf(row) ==
    LET got == IF row[4].t = "none" THEN Num(0) ELSE row[4]
        cost == IF Truthy(got) THEN got ELSE Num(0)
    IN  IF IsNumeric(cost) THEN cost.n ELSE 0

\* raw = excel_date_to_int(vals.get(col_num)); float(raw) if numeric else 0.0
SvcOf(row, col_num) ==
    LET raw == excel_date_to_int(row[col_num])
    IN  IF IsNumeric(raw) THEN raw.n ELSE 0

\* the cancer flag without .strip()
CancerOfNoStrip(row) ==
    LET got == IF row[CANCER_COL].t = "none" THEN Str(<<>>) ELSE row[CANCER_COL]
        cancer_val == IF Truthy(got) THEN Capitalize(PyStr(got)) ELSE Unknown
    IN  IF cancer_val \notin {Yes, No} THEN Unknown ELSE cancer_val

\* the normalised Cancer_Related_Project of a row
CancerOf(row) ==
    LET got == IF row[CANCER_COL].t = "none" THEN Str(<<>>) ELSE row[CANCER_COL]
        cancer_val == IF Truthy(got) THEN Capitalize(Strip(PyStr(got))) ELSE Unknown
    IN  IF cancer_val \notin {Yes, No} THEN Unknown ELSE cancer_val

\* status or "Unknown"
StatusOf(row) == IF Truthy(row[3]) THEN row[3] ELSE Str(Unknown)

\* pd.to_datetime(date, errors="coerce") for the date column's values: a datetime
\* is kept, None stays None, text that is no date becomes NaT, a number counts
\* nanoseconds from 1970-01-01
ToDatetime(c) ==
    CASE c.t = "date" -> c
      [] c.t = "none" -> NoneCell
      [] c.t = "num" -> IF c.n >= 0 THEN Date(1970, 1, 1) ELSE Date(1969, 12, 31)
      [] OTHER -> NaT

\* one element of records (the dict appended for a non-empty row)
RecordOf(row) ==
    [Requester_Name |-> row[1],
     Required_Date |-> ToDatetime(row[2]),
     Status |-> StatusOf(row),
     Cost_Recovery |-> CostOf(row),
     Cancer_Related_Project |-> CancerOf(row),
     svc |-> [c \in service_col_nums |-> SvcOf(row, c)]]

\* the for loop over ws.iter_rows(min_row=2)
RECURSIVE RowLoop(_)
RowLoop(rows) ==
    IF rows = <<>> THEN <<>>
    ELSE IF IsEmptyRow(Head(rows)) THEN RowLoop(Tail(rows))
    ELSE <<RecordOf(Head(rows))>> \o RowLoop(Tail(rows))

---------------------------------------------------------------------------
(* load_data: the DataFrame *)

MonthAbbr == << <<"J","a","n">>, <<"F","e","b">>, <<"M","a","r">>, <<"A","p","r">>,
                <<"M","a","y">>, <<"J","u","n">>, <<"J","u","l">>, <<"A","u","g">>,
                <<"S","e","p">>, <<"O","c","t">>, <<"N","o","v">>, <<"D","e","c">> >>

\* .dt.to_period("M"): the (year, month) of a timestamp, NaT for a missing one
ToPeriod(ts) ==
    IF ts.t = "date" THEN [nat |-> FALSE, y |-> YearOf(ts), m |-> MonthOf(ts)]
    ELSE [nat |-> TRUE, y |-> 0, m |-> 0]

\* .dt.strftime("%b %Y"): missing for NaT
MonthLabel(ts) ==
    IF ts.t = "date" THEN MonthAbbr[MonthOf(ts)] \o <<" ">> \o NatStr(YearOf(ts))
    ELSE <<>>

\* pd.DataFrame(records) raises on df["Required_Date"] when records is empty, and
\* .dt raises when no value of the column is a timestamp or NaT (every one is None:
\* the column keeps dtype object)
FrameFails(recs) ==
    \/ recs = <<>>
    \/ \A i \in 1..Len(recs) : recs[i].Required_Date.t = "none"

\* one row of df: index is the RangeIndex label; None in a datetime column is NaT
FrameRow(rec, i) ==
    LET ts == IF rec.Required_Date.t = "none" THEN NaT ELSE rec.Required_Date
    IN  [index |-> i - 1,
         Requester_Name |-> rec.Requester_Name,
         Required_Date |-> ts,
         Status |-> rec.Status,
         Cost_Recovery |-> rec.Cost_Recovery,
         Cancer_Related_Project |-> rec.Cancer_Related_Project,
         svc |-> rec.svc,
         Month_Year |-> ToPeriod(ts),
         Month_Year_Label |-> MonthLabel(ts)]

\* load_data(): records is the loop's list, ok is FALSE when the function raises
load_data(rows) ==
    LET recs == RowLoop(rows)
    IN  [records |-> recs,
         ok |-> ~FrameFails(recs),
         df |-> IF FrameFails(recs) THEN <<>>
                ELSE [i \in 1..Len(recs) |-> FrameRow(recs[i], i)]]

---------------------------------------------------------------------------
(* The script below the load: sidebar filters, filtered view, cost trend *)

\* all_requesters: the distinct non-missing requester names.  The source sorts the
\* list; only membership matters to isin(), so it is kept as a set.
all_requesters(d) ==
    {d[i].Requester_Name : i \in {j \in 1..Len(d) : d[j].Requester_Name.t # "none"}}

\* status_options: the distinct statuses (a set, as for all_requesters)
status_options(d) == {d[i].Status : i \in 1..Len(d)}

\* status_filter: the options whose checkbox (default checked) is checked
StatusFilter(d, unchecked) == {x \in status_options(d) : x \notin unchecked}

\* requester_filter: the requesters whose checkbox (default checked) is checked
RequesterFilter(d, unchecked) == {x \in all_requesters(d) : x \notin unchecked}

\* the filter with | in place of &
FilterRowsOr(d, sf, rf) ==
    SelectSeq(d, LAMBDA r : r.Status \in sf \/ r.Requester_Name \in rf)

\* df[df["Status"].isin(status_filter) & df["Requester_Name"].isin(requester_filter)]
FilterRows(d, sf, rf) ==
    SelectSeq(d, LAMBDA r : r.Status \in sf /\ r.Requester_Name \in rf)

\* df = df[...]: the filter assigned back to df
TableFilteredInPlace(d, dff) == dff

\* df after the rest of the script: no statement below the load assigns df or
\* changes it in place (views are new frames, display_df is a .copy())
TableAfterViews(d, dff) == d

PeriodLess(p, q) == p.y < q.y \/ (p.y = q.y /\ p.m < q.m)

\* .sort_values("Month_Year") of the group keys
RECURSIVE SortPeriods(_)
SortPeriods(ps) ==
    IF ps = {} THEN <<>>
    ELSE LET least == CHOOSE p \in ps : \A q \in ps \ {p} : PeriodLess(p, q)
         IN  <<least>> \o SortPeriods(ps \ {least})

RECURSIVE SumCost(_)
SumCost(d) == IF d = <<>> THEN 0 ELSE Head(d).Cost_Recovery + SumCost(Tail(d))

\* the group keys with dropna=False: NaT is a group of its own
GroupKeysKeepNaT(dff) == {dff[i].Month_Year : i \in 1..Len(dff)}

\* the group keys of groupby(["Month_Year", "Month_Year_Label"]): rows whose key
\* is missing (NaT) belong to no group
GroupKeys(dff) ==
    {dff[i].Month_Year : i \in {j \in 1..Len(dff) : ~dff[j].Month_Year.nat}}

\* cost_time: groupby(...)["Cost_Recovery"].sum().reset_index().sort_values(...)
CostTime(dff) ==
    LET keys == SortPeriods(GroupKeys(dff))
    IN  [k \in 1..Len(keys) |->
            LET grp == SelectSeq(dff, LAMBDA r : r.Month_Year = keys[k])
            IN  [Month_Year |-> keys[k],
                 Month_Year_Label |-> grp[1].Month_Year_Label,
                 Cost_Recovery |-> SumCost(grp)]]

---------------------------------------------------------------------------
(* The passcode gate and one run of the script *)

\* the gate without the comparison: any Unlock press authenticates
UnlocksAnyText(ent, login_btn) == login_btn

\* if login_btn: if entered == PASSCODE: authenticated = True; st.rerun()
Unlocks(ent, login_btn) == login_btn /\ ent = PASSCODE

\* the script from load_data() to the end, run with the given checkbox state
RenderDashboard(su, ru) ==
    LET ld == load_data(sheet)
    IN  /\ records' = ld.records
        /\ IF ld.ok
           THEN LET sf == StatusFilter(ld.df, su)
                    rf == RequesterFilter(ld.df, ru)
                    dff == FilterRows(ld.df, sf, rf)
                IN  /\ screen' = "dashboard"
                    /\ status_filter' = sf
                    /\ requester_filter' = rf
                    /\ df_filtered' = dff
                    /\ cost_time' = CostTime(dff)
                    /\ df' = TableAfterViews(ld.df, dff)
           ELSE /\ screen' = "exception"
                /\ status_filter' = {}
                /\ requester_filter' = {}
                /\ df_filtered' = <<>>
                /\ cost_time' = <<>>
                /\ df' = <<>>

\* the run ends at st.stop(): nothing below the gate is executed
StopAtGate(login_btn) ==
    /\ screen' = IF login_btn THEN "lock_error" ELSE "lock"
    /\ records' = <<>>
    /\ df' = <<>>
    /\ status_filter' = {}
    /\ requester_filter' = {}
    /\ df_filtered' = <<>>
    /\ cost_time' = <<>>

\* one run of the script (with the rerun st.rerun() starts, if any)
ScriptRun(ent, login_btn, su, ru) ==
    IF ~authenticated
    THEN IF Unlocks(ent, login_btn)
         THEN authenticated' = TRUE /\ RenderDashboard(su, ru)
         ELSE authenticated' = authenticated /\ StopAtGate(login_btn)
    ELSE authenticated' = authenticated /\ RenderDashboard(su, ru)

---------------------------------------------------------------------------
(* Inputs: the workbooks and the passcodes the model draws from *)

MaxRows == 3        \* data rows of a workbook of request rows
MaxFlagLen == 4     \* length of the enumerated cancer-flag texts

NameA == <<"A">>
NameB == <<"B">>
Completed == <<"C","o","m","p","l","e","t","e","d">>
Pending == <<"P","e","n","d","i","n","g">>
Junk == <<"a","b","c">>

\* a data row: requester, date, status, cost, the first and the last service
\* column and the cancer flag; every other column empty
MkRow(name, date, status, cost, svc5, svc12, cancer) ==
    [c \in Columns |->
        CASE c = 1 -> name
          [] c = 2 -> date
          [] c = 3 -> status
          [] c = 4 -> cost
          [] c = 5 -> svc5
          [] c = 12 -> svc12
          [] c = CANCER_COL -> cancer
          [] OTHER -> NoneCell]

EmptyRow == [c \in Columns |-> NoneCell]

\* request rows: named and unnamed requesters, dated and undated, two in one month
RequestRows ==
    { EmptyRow,
      MkRow(Str(NameA), Date(2025, 4, 1), Str(Completed), Num(100), Num(2), NoneCell, Str(Yes)),
      MkRow(Str(NameB), Date(2025, 4, 15), Str(Pending), Num(50), NoneCell, NoneCell, Str(No)),
      MkRow(Str(NameA), Date(2025, 5, 1), Str(Completed), Num(25), Num(1), NoneCell, NoneCell),
      MkRow(NoneCell, Date(2024, 12, 31), Str(Completed), Num(10), NoneCell, Num(3), NoneCell),
      MkRow(Str(NameB), NoneCell, NoneCell, Num(7), NoneCell, NoneCell, NoneCell) }

RECURSIVE SeqsUpTo(_, _)
SeqsUpTo(S, k) ==
    IF k = 0 THEN {<<>>}
    ELSE LET shorter == SeqsUpTo(S, k - 1)
         IN  shorter \cup {Append(q, x) : q \in {r \in shorter : Len(r) = k - 1}, x \in S}

RequestSheets == SeqsUpTo(RequestRows, MaxRows)

\* values of a currency or service-unit cell
AmountCells ==
    { NoneCell, Num(0), Num(7), Num(100), Num(-5), Bool(TRUE), Bool(FALSE),
      Str(<<"1","2">>), Str(<<" ","7">>), Str(Junk), Str(<<>>),
      Date(1900, 5, 1), Date(1900, 3, 1), Date(1900, 1, 1), Date(1899, 12, 30),
      Date(1899, 12, 29), Date(1900, 12, 31) }

\* one-row workbooks over the values of the cost cell and of the service-unit
\* cells (one of the three varied, or all three the same), with the date cell
\* present, text or absent
AmountSheets ==
    { <<MkRow(Str(NameA), d, Str(Completed), cost, svc5, svc12, NoneCell)>> :
        cost \in AmountCells, svc5 \in AmountCells, svc12 \in {NoneCell, Num(7)},
        d \in {Date(2025, 4, 1), Str(Junk), NoneCell} }

FlagChars == {" ", "Y", "e", "s", "n", "O"}

FlagCells ==
    {Str(txt) : txt \in SeqsUpTo(FlagChars, MaxFlagLen)}
    \cup { NoneCell, Str(<<"Y","E","S">>), Str(<<" ","Y","e","s"," ">>),
           Str(<<"M","a","y","b","e">>), Str(<<"N","O">>), Str(<<"\t","n","O","\n">>),
           Str(<<"y","e","s","!">>), Bool(TRUE), Bool(FALSE), Num(0), Num(1),
           Date(2025, 4, 1) }

\* one-row workbooks over the cancer-flag cell values
FlagSheets ==
    { <<MkRow(Str(NameA), Date(2025, 4, 1), st, Num(1), NoneCell, NoneCell, flag)>> :
        flag \in FlagCells, st \in {Str(Completed)} }

Wrong == <<"t","p","s","r">>
Passcodes == {<<>>, PASSCODE, Wrong}

---------------------------------------------------------------------------
(* The session *)

\* a new session after its first script run: the lock screen
Start ==
    /\ authenticated = FALSE
    /\ entered = <<>>
    /\ event = "start"
    /\ screen = "lock"
    /\ status_unchecked = {}
    /\ req_unchecked = {}
    /\ records = <<>>
    /\ df = <<>>
    /\ status_filter = {}
    /\ requester_filter = {}
    /\ df_filtered = <<>>
    /\ cost_time = <<>>

\* the user edits the passcode box: the script reruns with the new text
TypePasscode(txt) ==
    /\ ~authenticated
    /\ txt # entered
    /\ entered' = txt
    /\ event' = "type"
    /\ ScriptRun(txt, FALSE, status_unchecked, req_unchecked)
    /\ UNCHANGED <<sheet, status_unchecked, req_unchecked>>

\* the user presses Unlock
ClickUnlock ==
    /\ ~authenticated
    /\ event' = "unlock"
    /\ ScriptRun(entered, TRUE, status_unchecked, req_unchecked)
    /\ UNCHANGED <<sheet, entered, status_unchecked, req_unchecked>>

\* the user flips the checkbox of one status
ToggleStatus(x) ==
    /\ screen = "dashboard"
    /\ x \in status_options(df)
    /\ status_unchecked' =
          IF x \in status_unchecked THEN status_unchecked \ {x} ELSE status_unchecked \cup {x}
    /\ event' = "toggle"
    /\ ScriptRun(entered, FALSE, status_unchecked', req_unchecked)
    /\ UNCHANGED <<sheet, entered, req_unchecked>>

\* the user flips the checkbox of one requester
ToggleRequester(x) ==
    /\ screen = "dashboard"
    /\ x \in all_requesters(df)
    /\ req_unchecked' =
          IF x \in req_unchecked THEN req_unchecked \ {x} ELSE req_unchecked \cup {x}
    /\ event' = "toggle"
    /\ ScriptRun(entered, FALSE, status_unchecked, req_unchecked')
    /\ UNCHANGED <<sheet, entered, status_unchecked>>

\* the script reruns with no widget changed
Rerun ==
    /\ ScriptRun(entered, FALSE, status_unchecked, req_unchecked)
    /\ UNCHANGED <<sheet, entered, event, status_unchecked, req_unchecked>>

Next ==
    \/ \E txt \in Passcodes : TypePasscode(txt)
    \/ ClickUnlock
    \/ \E x \in status_options(df) : ToggleStatus(x)
    \/ \E x \in all_requesters(df) : ToggleRequester(x)
    \/ Rerun

\* a session over a workbook of request rows
Init == sheet \in RequestSheets /\ Start

Spec == Init /\ [][Next]_vars

\* a session over a one-row workbook, the row's cells drawn from every kind of value
InitCells == sheet \in AmountSheets \cup FlagSheets /\ Start

SpecCells == InitCells /\ [][Next]_vars

---------------------------------------------------------------------------
(* Vocabulary of the properties *)

\* the last run got past the gate and called load_data
RanLoad == screen \in {"dashboard", "exception"}

\* the data rows with at least one non-empty cell
NonEmptyIdx == {i \in 1..Len(sheet) : \E c \in Columns : sheet[i][c] # NoneCell}

\* the k-th of them in row order: the source row of the k-th record
SourceRow(k) ==
    sheet[CHOOSE i \in NonEmptyIdx : Cardinality({j \in NonEmptyIdx : j <= i}) = k]

\* text trimmed of leading and trailing whitespace, by position
Trimmed(txt) ==
    LET solid == {i \in 1..Len(txt) : txt[i] \notin Whitespace}
    IN  IF solid = {} THEN <<>>
        ELSE SubSeq(txt, CHOOSE i \in solid : \A j \in solid : i <= j,
                         CHOOSE i \in solid : \A j \in solid : j <= i)

LowerAll(txt) == [i \in 1..Len(txt) |-> Lower(txt[i])]

Epoch == Date(1899, 12, 30)

MonthLengths == <<31, 28, 31, 30, 31, 30, 31, 31, 30, 31, 30, 31>>

\* the days of the calendar years 1899 to 1901 (none of them a leap year), as
\* date cells
CalendarDays ==
    UNION { {Date(y, m, d) : d \in 1..MonthLengths[m]} : y \in 1899..1901, m \in 1..12 }

\* days since 1899-12-30, counted day by day over the calendar
DaysSinceEpoch(c) ==
    IF c.n >= Epoch.n
    THEN Cardinality({x \in CalendarDays : Epoch.n <= x.n /\ x.n < c.n})
    ELSE -Cardinality({x \in CalendarDays : c.n <= x.n /\ x.n < Epoch.n})

RECURSIVE SumOver(_, _)
SumOver(d, idx) ==
    IF idx = {} THEN 0
    ELSE LET i == CHOOSE j \in idx : TRUE
         IN  d[i].Cost_Recovery + SumOver(d, idx \ {i})

\* the (year, month) of the filtered row k, for a row that has a date
MonthOfRow(k) ==
    <<YearOf(df_filtered[k].Required_Date), MonthOf(df_filtered[k].Required_Date)>>

DatedRows == {k \in 1..Len(df_filtered) : df_filtered[k].Required_Date.t = "date"}

---------------------------------------------------------------------------
(* C1 *)

\* C1: on the dashboard, df_filtered holds exactly the rows of df whose Status is
\* in status_filter and whose Requester_Name is in requester_filter, each once and
\* in table order; with either selection empty the view is empty.
ThmC1 ==
    screen = "dashboard" =>
        /\ \A i \in 1..Len(df) :
              (\E k \in 1..Len(df_filtered) : df_filtered[k] = df[i])
              <=> (df[i].Status \in status_filter
                   /\ df[i].Requester_Name \in requester_filter)
        /\ \A k \in 1..Len(df_filtered) : \E i \in 1..Len(df) : df_filtered[k] = df[i]
        /\ \A k1, k2 \in 1..Len(df_filtered) :
              k1 < k2 => df_filtered[k1].index < df_filtered[k2].index
        /\ (status_filter = {} \/ requester_filter = {}) => df_filtered = <<>>

\* a view that keeps one row, drops one by its status alone and one by its
\* requester alone
WitC1 ==
    /\ screen = "dashboard"
    /\ df_filtered # <<>>
    /\ \E i \in 1..Len(df) :
          df[i].Status \notin status_filter /\ df[i].Requester_Name \in requester_filter
    /\ \E i \in 1..Len(df) :
          df[i].Status \in status_filter /\ df[i].Requester_Name \notin requester_filter

(* C2 *)

\* C2: with every status and every requester checkbox checked, the filtered view
\* is the whole loaded table.
CexC2 ==
    (screen = "dashboard" /\ status_unchecked = {} /\ req_unchecked = {})
        => df_filtered = df

(* C3 *)

\* C3 as stated: a service-unit cell holding the date 1900-05-01 becomes 121, a
\* plain number becomes itself, any cell that is neither number nor date becomes 0.
CexC3 ==
    RanLoad =>
        \A k \in 1..Len(records) : \A c \in service_col_nums :
            LET cell == SourceRow(k)[c]
                out == records[k].svc[c]
            IN  /\ cell = Date(1900, 5, 1) => out = 121
                /\ cell.t = "num" => out = cell.n
                /\ cell.t \in {"none", "str"} => out = 0

\* C3 amended: a service-unit cell holding a date becomes the number of days from
\* 1899-12-30 to that date, which is 122 for 1900-05-01; a number becomes itself
\* (a boolean 1 or 0); any other cell becomes 0.
ThmC3 ==
    RanLoad =>
        \A k \in 1..Len(records) : \A c \in service_col_nums :
            LET cell == SourceRow(k)[c]
                out == records[k].svc[c]
            IN  /\ cell.t = "date" => out = DaysSinceEpoch(cell)
                /\ cell = Date(1900, 5, 1) => out = 122
                /\ cell.t \in {"num", "bool"} => out = cell.n
                /\ cell.t \in {"none", "str"} => out = 0

\* a loaded row whose first service cell is the date 1900-05-01 and whose last is 7
WitC3 ==
    /\ screen = "dashboard"
    /\ Len(df) = 1
    /\ sheet[1][5] = Date(1900, 5, 1) /\ df[1].svc[5] = 122
    /\ sheet[1][12] = Num(7) /\ df[1].svc[12] = 7

(* C4 *)

\* C4 as stated: Cost_Recovery and every service-unit value of every record are
\* non-negative.
CexC4 ==
    RanLoad =>
        \A k \in 1..Len(records) :
            /\ records[k].Cost_Recovery >= 0
            /\ \A c \in service_col_nums : records[k].svc[c] >= 0

\* C4 amended: Cost_Recovery is negative exactly when the cost cell is a negative
\* number, which it then equals; a service-unit value is negative exactly when its
\* cell is a negative number, which it then equals, or a date before 1899-12-30.
ThmC4 ==
    RanLoad =>
        \A k \in 1..Len(records) :
            /\ LET cell == SourceRow(k)[4]
                   out == records[k].Cost_Recovery
               IN  IF cell.t = "num" /\ cell.n < 0 THEN out = cell.n ELSE out >= 0
            /\ \A c \in service_col_nums :
                  LET cell == SourceRow(k)[c]
                      out == records[k].svc[c]
                  IN  IF cell.t = "num" /\ cell.n < 0 THEN out = cell.n
                      ELSE IF cell.t = "date" /\ cell.n < Epoch.n THEN out < 0
                      ELSE out >= 0

\* a loaded row with a negative cost cell and a non-negative service cell
WitC4 ==
    /\ screen = "dashboard"
    /\ Len(df) = 1
    /\ sheet[1][4] = Num(-5) /\ df[1].Cost_Recovery = -5
    /\ sheet[1][5] = Num(7) /\ df[1].svc[5] = 7

(* C5 *)

\* C5 as stated: the cost cell gives its number when numeric, the number it
\* denotes when it is text denoting one, and 0 otherwise; a record is built for
\* every non-empty row.
CexC5 ==
    RanLoad =>
        /\ Len(records) = Cardinality(NonEmptyIdx)
        /\ \A k \in 1..Len(records) :
              LET cell == SourceRow(k)[4]
                  out == records[k].Cost_Recovery
              IN  /\ cell.t = "num" => out = cell.n
                  /\ (cell.t = "str" /\ DenotesNumber(cell.s)) => out = NumberDenoted(cell.s)
                  /\ (cell.t = "none" \/ (cell.t = "str" /\ ~DenotesNumber(cell.s))) => out = 0

\* C5 amended: the cost cell gives its number when numeric (a boolean 1 or 0) and
\* 0 for every other value: missing, a date, and any text, text denoting a number
\* included; a record is built for every non-empty row, whatever the cell holds.
ThmC5 ==
    RanLoad =>
        /\ Len(records) = Cardinality(NonEmptyIdx)
        /\ \A k \in 1..Len(records) :
              LET cell == SourceRow(k)[4]
                  out == records[k].Cost_Recovery
              IN  /\ cell.t \in {"num", "bool"} => out = cell.n
                  /\ cell.t \in {"none", "str", "date"} => out = 0

\* a loaded row whose cost cell is the text "12"
WitC5 ==
    /\ screen = "dashboard"
    /\ Len(df) = 1
    /\ sheet[1][4] = Str(<<"1","2">>)
    /\ df[1].Cost_Recovery = 0

(* C6 *)

\* C6: the row loop builds one record per data row that has a non-empty cell, in
\* row order, and none for an all-empty row; the loaded table has as many rows.
ThmC6 ==
    RanLoad =>
        /\ Len(records) = Cardinality(NonEmptyIdx)
        /\ \A k \in 1..Len(records) : records[k] = RecordOf(SourceRow(k))
        /\ screen = "dashboard" =>
              /\ Len(df) = Len(records)
              /\ \A k \in 1..Len(df) :
                    /\ df[k].index = k - 1
                    /\ df[k].Requester_Name = SourceRow(k)[1]
                    /\ df[k].Cost_Recovery = records[k].Cost_Recovery

\* a loaded workbook with an empty row between two different request rows
WitC6 ==
    /\ screen = "dashboard"
    /\ Len(sheet) = 3
    /\ sheet[2] = EmptyRow
    /\ sheet[1] # EmptyRow /\ sheet[3] # EmptyRow /\ sheet[1] # sheet[3]
    /\ Len(df) = 2

(* C7 *)

\* C7: Cancer_Related_Project is Yes, No or Unknown; it is Yes exactly when the
\* cell is text that, trimmed and lower-cased, is "yes", No exactly when that is
\* "no", and Unknown otherwise.
ThmC7 ==
    RanLoad =>
        \A k \in 1..Len(records) :
            LET cell == SourceRow(k)[CANCER_COL]
                out == records[k].Cancer_Related_Project
                folded == LowerAll(Trimmed(PyStr(cell)))
            IN  /\ out \in {Yes, No, Unknown}
                /\ out = Yes <=> (cell.t # "none" /\ folded = <<"y","e","s">>)
                /\ out = No <=> (cell.t # "none" /\ folded = <<"n","o">>)
                /\ cell \in {NoneCell, Str(<<>>), Str(<<"M","a","y","b","e">>)} => out = Unknown

\* a loaded row whose flag " Yes " became Yes
WitC7 ==
    /\ screen = "dashboard"
    /\ Len(df) = 1
    /\ sheet[1][CANCER_COL] = Str(<<" ","Y","e","s"," ">>)
    /\ df[1].Cancer_Related_Project = Yes

(* C8 *)

\* C8: cost_time has one bucket per (year, month) of the filtered rows that have
\* a date, each holding the summed Cost_Recovery of that month's rows, in
\* ascending chronological order; an undated row is in no bucket and the loaded
\* table keeps a row for every record.
ThmC8 ==
    screen = "dashboard" =>
        /\ Len(cost_time) = Cardinality({MonthOfRow(k) : k \in DatedRows})
        /\ \A b \in 1..Len(cost_time) :
              /\ ~cost_time[b].Month_Year.nat
              /\ <<cost_time[b].Month_Year.y, cost_time[b].Month_Year.m>>
                    \in {MonthOfRow(k) : k \in DatedRows}
              /\ cost_time[b].Cost_Recovery =
                    SumOver(df_filtered,
                            {k \in DatedRows : MonthOfRow(k) =
                                <<cost_time[b].Month_Year.y, cost_time[b].Month_Year.m>>})
        /\ \A b1, b2 \in 1..Len(cost_time) :
              b1 < b2 => \/ cost_time[b1].Month_Year.y < cost_time[b2].Month_Year.y
                         \/ /\ cost_time[b1].Month_Year.y = cost_time[b2].Month_Year.y
                            /\ cost_time[b1].Month_Year.m < cost_time[b2].Month_Year.m
        /\ Len(df) = Len(records)

\* two rows of April 2025 summed to 150 in one bucket, beside an undated row that
\* is in the view and in the table
WitC8 ==
    /\ screen = "dashboard"
    /\ Len(cost_time) = 1
    /\ cost_time[1].Cost_Recovery = 150
    /\ cost_time[1].Month_Year = [nat |-> FALSE, y |-> 2025, m |-> 4]
    /\ Len(df_filtered) = 3
    /\ \E k \in 1..Len(df_filtered) : df_filtered[k].Required_Date = NaT

(* C9 *)

\* C9: on every dashboard the table is the one load_data builds from the
\* workbook, row for row the loop's records; no step changes the workbook, and a
\* step from dashboard to dashboard leaves the table as it was.
ThmC9 ==
    /\ [](screen = "dashboard" =>
            /\ Len(df) = Cardinality(NonEmptyIdx)
            /\ \A k \in 1..Len(df) :
                  /\ df[k].index = k - 1
                  /\ df[k].Requester_Name = records[k].Requester_Name
                  /\ df[k].Status = records[k].Status
                  /\ df[k].Cost_Recovery = records[k].Cost_Recovery
                  /\ df[k].Cancer_Related_Project = records[k].Cancer_Related_Project
                  /\ df[k].svc = records[k].svc)
    /\ [][sheet' = sheet]_vars
    /\ [][(screen = "dashboard" /\ screen' = "dashboard") => df' = df]_vars

\* a dashboard re-derived after a checkbox change, its view smaller than the table
WitC9 ==
    /\ screen = "dashboard"
    /\ event = "toggle"
    /\ df_filtered # <<>>
    /\ Len(df_filtered) < Len(df)

(* C10 *)

\* C10: a session starts unauthenticated; load_data and the dashboard are reached
\* only in a run with authenticated true; authenticated turns true only on an
\* Unlock press with the entered text equal to PASSCODE; an Unlock press with any
\* other text leaves it false and shows the error; once true it stays true.
ThmC10 ==
    /\ ~authenticated
    /\ [](~authenticated =>
            /\ screen \in {"lock", "lock_error"}
            /\ records = <<>> /\ df = <<>> /\ df_filtered = <<>> /\ cost_time = <<>>)
    /\ [][(~authenticated /\ authenticated') =>
            (ClickUnlock /\ event' = "unlock" /\ entered = PASSCODE)]_vars
    /\ [][(ClickUnlock /\ entered # PASSCODE) =>
            (~authenticated' /\ screen' = "lock_error")]_vars
    /\ [][authenticated => authenticated']_vars

\* the dashboard reached by an Unlock press with the passcode entered
WitC10 ==
    /\ authenticated
    /\ screen = "dashboard"
    /\ event = "unlock"
    /\ entered = PASSCODE

====
